---- MODULE Spec2Model ----
(***************************************************************************)
(* Model of src/dialogs/inputdialog.cpp: the input configuration dialog.   *)
(* The dialog owns four Controller records, a capture session              *)
(* (inputReadingState + inputTimer) and writes the plugin's config store   *)
(* on accept.  The SDL event queue, the joystick device and the config     *)
(* store are the environment the handlers act on.                          *)
(***************************************************************************)
EXTENDS Integers, Sequences, FiniteSets, TLC

\* ------------------------------------------------------------------------
\* Bounds of the model
\* ------------------------------------------------------------------------
MaxQueue == 1
MaxCommits == 1
MaxSelect == 1

\* ------------------------------------------------------------------------
\* Program constants
\* ------------------------------------------------------------------------
NumControllers == 4
Deadzone == 16384
SDL_HAT_CENTERED == 0
SDL_HAT_UP == 1
SDL_HAT_RIGHT == 2
SDL_HAT_DOWN == 4
SDL_HAT_LEFT == 8
Key_Escape == 16777216
\* Values of an m64p_handle that are no section of the config store: the
\* core refuses JunkHandle, a call with WildHandle faults.
JunkHandle == -1
WildHandle == -2

\* ------------------------------------------------------------------------
\* KeySpec and KeySpec::Value (class declared outside this file)
\* ------------------------------------------------------------------------
\* A default-constructed Value: no binding for the slot.
DefaultValue == [number |-> -1, sign |-> "NO_SIGN", direction |-> "NO_DIR"]

ValueN(n) == [number |-> n, sign |-> "NO_SIGN", direction |-> "NO_DIR"]

ValueSign(n, sign) == [number |-> n, sign |-> sign, direction |-> "NO_DIR"]

ValueDir(n, dir) == [number |-> n, sign |-> "NO_SIGN", direction |-> dir]

\* KeySpec(type, value): a KeySpec holding the one value.
KeySpec(type, value) == [type |-> type, values |-> <<value>>]

invertedSign(v) ==
    [v EXCEPT !.sign = IF v.sign = "PLUS" THEN "MINUS"
                       ELSE IF v.sign = "MINUS" THEN "PLUS"
                       ELSE v.sign]

invertedDirection(v) ==
    [v EXCEPT !.direction = IF v.direction = "UP" THEN "DOWN"
                            ELSE IF v.direction = "DOWN" THEN "UP"
                            ELSE IF v.direction = "LEFT" THEN "RIGHT"
                            ELSE IF v.direction = "RIGHT" THEN "LEFT"
                            ELSE v.direction]

\* ------------------------------------------------------------------------
\* Strings.  A string is the sequence of its lexemes: words, numbers in
\* decimal and the single space " ".  "AXIS 1 +" is
\* <<"AXIS", " ", "1", " ", "+">>.
\* ------------------------------------------------------------------------
\* The numbers that occur in key-spec strings: -1 for no binding, button,
\* axis and hat indexes, key codes.
MaxNumber == 70

Numbers == (-1..MaxNumber) \cup {Key_Escape}

\* A number in decimal.
N(n) == ToString(n)

IsNumber(tok) == \E n \in Numbers : ToString(n) = tok

\* The number a decimal lexeme denotes.
atoi(tok) == CHOOSE n \in Numbers : ToString(n) = tok

Sp == " "

TypeTags == {"BUTTON", "AXIS", "HAT", "KEY"}

SignWord(sign) == IF sign = "PLUS" THEN "+" ELSE "-"

IsSignWord(tok) == tok \in {"+", "-"}

WordSign(tok) == IF tok = "+" THEN "PLUS" ELSE "MINUS"

Directions == {"UP", "DOWN", "LEFT", "RIGHT"}

IsDirWord(tok) == tok \in Directions

\* Rendering of one Value of a KeySpec of the given type.
valueToString(type, v) ==
    IF type = "AXIS" /\ v.sign # "NO_SIGN"
        THEN <<N(v.number), Sp, SignWord(v.sign)>>
    ELSE IF type = "HAT" /\ v.direction # "NO_DIR"
        THEN <<N(v.number), Sp, v.direction>>
    ELSE <<N(v.number)>>

RECURSIVE valuesToString(_, _)
valuesToString(type, vals) ==
    IF vals = <<>> THEN <<>>
    ELSE <<Sp>> \o valueToString(type, Head(vals))
              \o valuesToString(type, Tail(vals))

\* KeySpec::toString: the type tag followed by the value fields.
toString(k) == <<k.type>> \o valuesToString(k.type, k.values)

RECURSIVE skipSpaces(_)
skipSpaces(str) ==
    IF str # <<>> /\ Head(str) = Sp THEN skipSpaces(Tail(str)) ELSE str

\* A lexeme ends where the string ends or a space follows: lexemes written
\* without a space between them read as one malformed word.
AtBoundary(str) == str = <<>> \/ Head(str) = Sp

\* One value of the given type at the front of str (leading spaces
\* skipped): [ok, value, rest].
parseValue(type, str) ==
    LET s == skipSpaces(str)
        fail == [ok |-> FALSE, value |-> DefaultValue, rest |-> str]
    IN  IF s = <<>> \/ ~IsNumber(Head(s)) \/ ~AtBoundary(Tail(s)) THEN fail
        ELSE LET n == atoi(Head(s))
                 r == skipSpaces(Tail(s))
             IN  IF type = "AXIS"
                    THEN IF r # <<>> /\ IsSignWord(Head(r))
                                     /\ AtBoundary(Tail(r))
                            THEN [ok |-> TRUE,
                                  value |-> ValueSign(n, WordSign(Head(r))),
                                  rest |-> Tail(r)]
                            ELSE fail
                 ELSE IF type = "HAT"
                    THEN IF r # <<>> /\ IsDirWord(Head(r))
                                     /\ AtBoundary(Tail(r))
                            THEN [ok |-> TRUE,
                                  value |-> ValueDir(n, Head(r)),
                                  rest |-> Tail(r)]
                            ELSE fail
                 ELSE [ok |-> TRUE, value |-> ValueN(n), rest |-> Tail(s)]

RECURSIVE parseValues(_, _, _)
parseValues(type, acc, str) ==
    LET p == parseValue(type, str)
    IN  IF p.ok THEN parseValues(type, Append(acc, p.value), p.rest)
        ELSE [values |-> acc, rest |-> str]

\* KeySpec::parseOne(k, &str): extracts one KeySpec from the front of str
\* and advances str; fails when no KeySpec starts there.
parseOne(str) ==
    LET s == skipSpaces(str)
        fail == [ok |-> FALSE, k |-> [type |-> "KEY", values |-> <<>>],
                 rest |-> str]
    IN  IF s = <<>> \/ Head(s) \notin TypeTags \/ ~AtBoundary(Tail(s))
            THEN fail
        ELSE LET type == Head(s)
                 pv == parseValues(type, <<>>, Tail(s))
             IN  IF pv.values = <<>> THEN fail
                 ELSE [ok |-> TRUE,
                       k |-> [type |-> type, values |-> pv.values],
                       rest |-> pv.rest]

\* A loop that skips a lexeme it cannot parse and goes on.
RECURSIVE parseKeyConfigFromSkipping(_, _)
parseKeyConfigFromSkipping(ret, str) ==
    LET p == parseOne(str)
    IN  IF str = <<>> THEN ret
        ELSE IF ~p.ok THEN parseKeyConfigFromSkipping(ret, Tail(str))
        ELSE parseKeyConfigFromSkipping(Append(ret, p.k), p.rest)

RECURSIVE parseKeyConfigFrom(_, _)
parseKeyConfigFrom(ret, str) ==
    LET p == parseOne(str)
    IN  IF ~p.ok THEN ret
        ELSE parseKeyConfigFrom(Append(ret, p.k), p.rest)

parseKeyConfig(str) == parseKeyConfigFrom(<<>>, str)

\* A loop that writes no separator.
RECURSIVE keyspecsToStringFromUnjoined(_, _, _)
keyspecsToStringFromUnjoined(str, first, keyspecs) ==
    IF keyspecs = <<>> THEN str
    ELSE keyspecsToStringFromUnjoined(str \o toString(Head(keyspecs)),
                                      FALSE, Tail(keyspecs))

RECURSIVE keyspecsToStringFrom(_, _, _)
keyspecsToStringFrom(str, first, keyspecs) ==
    IF keyspecs = <<>> THEN str
    ELSE keyspecsToStringFrom(
            (IF first THEN str ELSE str \o <<Sp>>) \o toString(Head(keyspecs)),
            FALSE, Tail(keyspecs))

keyspecsToString(keyspecs) == keyspecsToStringFrom(<<>>, TRUE, keyspecs)

\* ------------------------------------------------------------------------
\* setKeySpecs: the commit operation of a capture session
\* ------------------------------------------------------------------------
RECURSIVE padding(_, _)
padding(n, fill) == IF n <= 0 THEN <<>> ELSE <<fill>> \o padding(n - 1, fill)

\* std::vector::resize: the first n elements, the new ones equal to fill.
resizeValues(vals, n, fill) ==
    IF n <= Len(vals) THEN SubSeq(vals, 1, n)
    ELSE vals \o padding(n - Len(vals), fill)

\* Lines 152-170: a fresh KeySpec of key's type, the other slots filled
\* with the inverted value of key.
setKeySpecsFreshNoInvert(keys, key, param) ==
    LET n0 == param + 1
        n1 == IF keys # <<>> /\ Len(keys[1].values) > n0
                THEN Len(keys[1].values) ELSE n0
        nValues == IF n1 < 2 THEN 2 ELSE n1
        vals == resizeValues(<<>>, nValues, key.values[1])
    IN  <<[type |-> key.type,
           values |-> [vals EXCEPT ![param + 1] = key.values[1]]]>>

setKeySpecsFreshUnfilled(keys, key, param) ==
    LET n0 == param + 1
        n1 == IF keys # <<>> /\ Len(keys[1].values) > n0
                THEN Len(keys[1].values) ELSE n0
        nValues == IF n1 < 2 THEN 2 ELSE n1
        vals == resizeValues(<<>>, nValues, DefaultValue)
    IN  <<[type |-> key.type,
           values |-> [vals EXCEPT ![param + 1] = key.values[1]]]>>

setKeySpecsFresh(keys, key, param) ==
    LET n0 == param + 1
        n1 == IF keys # <<>> /\ Len(keys[1].values) > n0
                THEN Len(keys[1].values) ELSE n0
        nValues == IF n1 < 2 THEN 2 ELSE n1
        fill == IF key.type = "AXIS" THEN invertedSign(key.values[1])
                ELSE IF key.type = "HAT"
                    THEN invertedDirection(key.values[1])
                ELSE DefaultValue
        vals == resizeValues(<<>>, nValues, fill)
    IN  <<[type |-> key.type,
           values |-> [vals EXCEPT ![param + 1] = key.values[1]]]>>

\* Lines 172-176: the first KeySpec kept, slot param overwritten.
setKeySpecsPatchCleared(keys, key, param) ==
    LET k0 == keys[1]
        n == IF Len(k0.values) <= param THEN param + 1 ELSE Len(k0.values)
        vals == resizeValues(<<>>, n, DefaultValue)
    IN  <<[k0 EXCEPT !.values = [vals EXCEPT ![param + 1] = key.values[1]]]>>

setKeySpecsPatchKeepsRest(keys, key, param) ==
    LET k0 == keys[1]
        vals == IF Len(k0.values) <= param
                  THEN resizeValues(k0.values, param + 1, DefaultValue)
                  ELSE k0.values
    IN  [keys EXCEPT ![1] =
            [k0 EXCEPT !.values = [vals EXCEPT ![param + 1] = key.values[1]]]]

setKeySpecsPatch(keys, key, param) ==
    LET k0 == keys[1]
        vals == IF Len(k0.values) <= param
                  THEN resizeValues(k0.values, param + 1, DefaultValue)
                  ELSE k0.values
    IN  <<[k0 EXCEPT !.values = [vals EXCEPT ![param + 1] = key.values[1]]]>>

setKeySpecsKeepsList(keys, key, param) ==
    IF param < 0 THEN <<key>> \o keys
    ELSE IF keys = <<>> \/ keys[1].type # key.type
        THEN setKeySpecsFresh(keys, key, param)
    ELSE setKeySpecsPatch(keys, key, param)

setKeySpecs(keys, key, param) ==
    IF param < 0 THEN <<key>>
    ELSE IF keys = <<>> \/ keys[1].type # key.type
        THEN setKeySpecsFresh(keys, key, param)
    ELSE setKeySpecsPatch(keys, key, param)

\* ------------------------------------------------------------------------
\* State
\* ------------------------------------------------------------------------
VARIABLES
    controllers,            \* [0..3 -> Controller]: configHandle, values, changed
    currentControllerIndex, \* index selected in the controller box
    inputReadingState,      \* {reading, button, value, joy}
    inputTimer,             \* id of the poll timer, 0 when none
    sdlWasInited,           \* result of SDL_InitSubSystem in the constructor
    buttonText,             \* text shown on each button of the dialog
    config,                 \* config store: section -> mode and parameters
    savedSections,          \* sections written out by ConfigSaveSection
    sdlQueue,               \* SDL event queue
    joyRefCount,            \* open references on joystick device 0
    activeTimers,           \* timers of the dialog that are running
    joyAvail,               \* a joystick is attached at device index 0
    phase,                  \* "open", "closed", "destroyed" or "crashed"
    nCommits,               \* captures committed so far
    superseded,             \* the last step was a rebind taken while reading
    merge,                  \* setKeySpecs applied to drawn arguments
    polled,                 \* the events the timer event under study polled
    codec                   \* a KeySpec list serialized and parsed back

vars == <<controllers, currentControllerIndex, inputReadingState, inputTimer,
          sdlWasInited, buttonText, config, savedSections, sdlQueue,
          joyRefCount, activeTimers, joyAvail, phase, nCommits, superseded,
          merge, polled, codec>>

ControllerIndexes == 0..(NumControllers - 1)

\* The button table of getButtons.
AllButtons == <<
    [configName |-> "X Axis",           parameter |-> 0],
    [configName |-> "X Axis",           parameter |-> 1],
    [configName |-> "Y Axis",           parameter |-> 0],
    [configName |-> "Y Axis",           parameter |-> 1],
    [configName |-> "A Button",         parameter |-> -1],
    [configName |-> "B Button",         parameter |-> -1],
    [configName |-> "Start",            parameter |-> -1],
    [configName |-> "L Trig",           parameter |-> -1],
    [configName |-> "R Trig",           parameter |-> -1],
    [configName |-> "Z Trig",           parameter |-> -1],
    [configName |-> "C Button U",       parameter |-> -1],
    [configName |-> "C Button D",       parameter |-> -1],
    [configName |-> "C Button L",       parameter |-> -1],
    [configName |-> "C Button R",       parameter |-> -1],
    [configName |-> "DPad U",           parameter |-> -1],
    [configName |-> "DPad D",           parameter |-> -1],
    [configName |-> "DPad L",           parameter |-> -1],
    [configName |-> "DPad R",           parameter |-> -1],
    [configName |-> "Mempak switch",    parameter |-> -1],
    [configName |-> "Rumblepak switch", parameter |-> -1] >>

\* The controls the model follows: one two-slot control and one
\* whole-KeySpec control; the other rows of the table behave like these.
ModelledNames == {"X Axis", "A Button"}

IsModelled(b) == b.configName \in ModelledNames

buttons == SelectSeq(AllButtons, IsModelled)

ButtonIndexes == 1..Len(buttons)

OwnsParameter(b) == b.parameter = 0 \/ b.parameter = -1

\* The buttons for which setValues reads a config parameter.
ValueButtons == SelectSeq(buttons, OwnsParameter)

UnboundText == <<"Select...">>

\* ------------------------------------------------------------------------
\* Environment: config store contents at construction, SDL events, keys
\* ------------------------------------------------------------------------
ConfigProfiles == <<
    [mode |-> 2,
     params |-> [nm \in ModelledNames |->
        IF nm = "X Axis"
            THEN <<"AXIS", " ", "0", " ", "-", " ", "0", " ", "+">>
            ELSE <<"BUTTON", " ", "0">>]],
    [mode |-> 2,
     params |-> [nm \in ModelledNames |-> <<>>]],
    [mode |-> 2,
     params |-> [nm \in ModelledNames |->
        IF nm = "X Axis"
            THEN <<"KEY", " ", "65", " ", "AXIS", " ", "1", " ", "+">>
            ELSE <<"BUTTON", " ", "3", " ", "GARBAGE">>]] >>

\* Instance id of the joystick at device index 0, and of another device.
Joy0Id == 0
OtherJoyId == 1

Ev(type, which, n, value) ==
    [type |-> type, which |-> which, n |-> n, value |-> value]

EventAlphabet == {
    Ev("JOYBUTTONDOWN", Joy0Id, 3, 1),
    Ev("JOYAXISMOTION", Joy0Id, 2, Deadzone + 1) }

QtKeys == {65, Key_Escape}

\* ------------------------------------------------------------------------
\* The handlers, as functions of the dialog and its environment
\* ------------------------------------------------------------------------
State == [controllers |-> controllers,
          currentControllerIndex |-> currentControllerIndex,
          inputReadingState |-> inputReadingState,
          inputTimer |-> inputTimer,
          buttonText |-> buttonText,
          config |-> config,
          savedSections |-> savedSections,
          sdlQueue |-> sdlQueue,
          joyRefCount |-> joyRefCount,
          activeTimers |-> activeTimers,
          phase |-> phase,
          nCommits |-> nCommits]

currentController(d) == d.controllers[d.currentControllerIndex]

\* Position in values of the first Value named configName, 0 when none.
findValue(values, configName) ==
    IF \E j \in 1..Len(values) : values[j].configName = configName
        THEN CHOOSE j \in 1..Len(values) :
                /\ values[j].configName = configName
                /\ \A i \in 1..(j - 1) : values[i].configName # configName
        ELSE 0

\* A projection that shows a slot whatever number it holds.
projectKeysAnyNumber(values, b) ==
    LET j == findValue(values, b.configName)
        keyspecs == IF j = 0 THEN <<>> ELSE values[j].keys
        p == b.parameter
    IN  IF p >= 0
            THEN IF \E i \in 1..Len(keyspecs) : Len(keyspecs[i].values) <= p
                    THEN <<>>
                    ELSE [i \in 1..Len(keyspecs) |->
                            [keyspecs[i] EXCEPT
                                !.values = <<keyspecs[i].values[p + 1]>>]]
            ELSE keyspecs

\* The KeySpecs shown on a button: the whole list, or for a button with a
\* parameter each KeySpec reduced to that slot, nothing if a slot is missing
\* or holds no number.
projectKeys(values, b) ==
    LET j == findValue(values, b.configName)
        keyspecs == IF j = 0 THEN <<>> ELSE values[j].keys
        p == b.parameter
        slotOk(k) == Len(k.values) > p /\ k.values[p + 1].number >= 0
    IN  IF p >= 0
            THEN IF \E i \in 1..Len(keyspecs) : ~slotOk(keyspecs[i])
                    THEN <<>>
                    ELSE [i \in 1..Len(keyspecs) |->
                            [keyspecs[i] EXCEPT
                                !.values = <<keyspecs[i].values[p + 1]>>]]
            ELSE keyspecs

showKeys(keyspecs) ==
    IF keyspecs = <<>> THEN UnboundText ELSE keyspecsToString(keyspecs)

\* The members before the constructor's setValues; handles are the handles
\* the constructor's loop stored.
Blank(cfg, handles) ==
    [controllers |-> [i \in ControllerIndexes |->
        [configHandle |-> handles[i], values |-> <<>>, changed |-> FALSE]],
     currentControllerIndex |-> 0,
     inputReadingState |-> [reading |-> FALSE, button |-> 0,
                            value |-> [ctrl |-> 0, idx |-> 0],
                            joy |-> "NULL"],
     inputTimer |-> 0,
     buttonText |-> [bi \in ButtonIndexes |-> <<>>],
     config |-> cfg,
     savedSections |-> {},
     sdlQueue |-> <<>>,
     joyRefCount |-> 0,
     activeTimers |-> 0,
     phase |-> "open",
     nCommits |-> 0]

handlesOf(d) == [i \in ControllerIndexes |-> d.controllers[i].configHandle]

\* A call into the core with WildHandle faults and the process ends: the
\* dialog, its timers and its joystick references are gone, the config
\* store and what was written out remain.
crash(d) ==
    [Blank(d.config, handlesOf(d)) EXCEPT
        !.phase = "crashed",
        !.savedSections = d.savedSections,
        !.nCommits = d.nCommits]

IsSection(d, handle) == handle \in DOMAIN d.config

\* ConfigGetParamString: the parameter's string, "" for a handle the core
\* refuses.
getParamString(d, handle, name) ==
    IF IsSection(d, handle) THEN d.config[handle].params[name] ELSE <<>>

\* Lines 353-361: one Value per button that owns a config parameter.
RECURSIVE readValues(_, _, _)
readValues(d, handle, btns) ==
    IF btns = <<>> THEN <<>>
    ELSE <<[configName |-> Head(btns).configName,
            keys |-> parseKeyConfig(
                        getParamString(d, handle, Head(btns).configName))]>>
         \o readValues(d, handle, Tail(btns))

\* Lines 352-362: the values are read from the config store once.
loadValues(d) ==
    IF currentController(d).values # <<>> THEN d
    ELSE IF currentController(d).configHandle = WildHandle THEN crash(d)
    ELSE [d EXCEPT !.controllers[d.currentControllerIndex].values =
            readValues(d, currentController(d).configHandle, ValueButtons)]

\* Lines 365-398: the values are shown on the buttons.
showValues(d) ==
    [d EXCEPT !.buttonText =
        [bi \in ButtonIndexes |->
            showKeys(projectKeys(currentController(d).values, buttons[bi]))]]

showLoaded(d) == IF d.phase = "crashed" THEN d ELSE showValues(d)

setValues(d) == showLoaded(loadValues(d))

stopReadInputLeavesTimer(d) ==
    [d EXCEPT !.joyRefCount = IF d.inputReadingState.joy # "NULL"
                                THEN d.joyRefCount - 1 ELSE d.joyRefCount,
              !.inputReadingState.reading = FALSE]

stopReadInputKeepsReading(d) ==
    [d EXCEPT !.joyRefCount = IF d.inputReadingState.joy # "NULL"
                                THEN d.joyRefCount - 1 ELSE d.joyRefCount,
              !.activeTimers = IF d.inputTimer # 0
                                THEN d.activeTimers - 1 ELSE d.activeTimers,
              !.inputTimer = 0]

stopReadInput(d) ==
    [d EXCEPT !.joyRefCount = IF d.inputReadingState.joy # "NULL"
                                THEN d.joyRefCount - 1 ELSE d.joyRefCount,
              !.inputReadingState.reading = FALSE,
              !.activeTimers = IF d.inputTimer # 0
                                THEN d.activeTimers - 1 ELSE d.activeTimers,
              !.inputTimer = 0]

IsNotAxisMotion(e) == e.type # "JOYAXISMOTION"

\* Lines 130-132.  The GUI thread sleeps, so no handler runs meanwhile;
\* SDL_JoystickUpdate then appends to the queue what the joysticks have
\* reported, and SDL_FlushEvent drops the axis motion events of the queue.
updateAndFlush(queue, reported) ==
    SelectSeq(queue \o reported, IsNotAxisMotion)

startReadInputNoStop(d, bi, vptr, reported) ==
    LET opened == sdlWasInited /\ joyAvail
    IN  [d EXCEPT
            !.activeTimers = d.activeTimers + 1,
            !.inputTimer = 1,
            !.joyRefCount = IF opened THEN d.joyRefCount + 1
                            ELSE d.joyRefCount,
            !.inputReadingState = [reading |-> TRUE, button |-> bi,
                                   value |-> vptr,
                                   joy |-> IF opened THEN "JOY0" ELSE "NULL"],
            !.sdlQueue = updateAndFlush(d.sdlQueue, reported)]

startReadInput(d, bi, vptr, reported) ==
    LET d1 == IF d.inputReadingState.reading THEN stopReadInput(d) ELSE d
        opened == sdlWasInited /\ joyAvail
    IN  [d1 EXCEPT
            !.activeTimers = d1.activeTimers + 1,
            !.inputTimer = 1,
            !.joyRefCount = IF opened THEN d1.joyRefCount + 1
                            ELSE d1.joyRefCount,
            !.inputReadingState = [reading |-> TRUE, button |-> bi,
                                   value |-> vptr,
                                   joy |-> IF opened THEN "JOY0" ELSE "NULL"],
            !.sdlQueue = updateAndFlush(d1.sdlQueue, reported)]

\* The lambda connected to a button's pressed signal; reported is what the
\* joysticks report by the time startReadInput updates them.
buttonPressed(d, bi, reported) ==
    LET c == currentController(d)
        j == findValue(c.values, buttons[bi].configName)
    IN  IF j = 0 THEN d
        ELSE startReadInput(d, bi,
                [ctrl |-> d.currentControllerIndex, idx |-> j], reported)

\* Lines 239-241: setKeySpecs on the keys of the session's Value.
mergeKey(d, key) ==
    [d EXCEPT !.controllers[d.inputReadingState.value.ctrl]
                .values[d.inputReadingState.value.idx].keys =
        setKeySpecs(@, key, buttons[d.inputReadingState.button].parameter)]

\* Line 243: currentController().changed = true.
markChanged(d) ==
    [d EXCEPT !.controllers[d.currentControllerIndex].changed = TRUE,
              !.nCommits = @ + 1]

\* Lines 239-244 and 261-266: commit key into the session's Value.
commitInput(d, key) == stopReadInput(markChanged(setValues(mergeKey(d, key))))

NoKey == [type |-> "NONE", values |-> <<>>]

hatDirectionByBit(val) ==
    IF val % 2 = 1 THEN "UP"
    ELSE IF val = SDL_HAT_DOWN THEN "DOWN"
    ELSE IF val = SDL_HAT_LEFT THEN "LEFT"
    ELSE IF val = SDL_HAT_RIGHT THEN "RIGHT"
    ELSE "NO_DIR"

hatDirection(val) ==
    IF val = SDL_HAT_UP THEN "UP"
    ELSE IF val = SDL_HAT_DOWN THEN "DOWN"
    ELSE IF val = SDL_HAT_LEFT THEN "LEFT"
    ELSE IF val = SDL_HAT_RIGHT THEN "RIGHT"
    ELSE "NO_DIR"

axisSignInclusive(val) ==
    IF val >= Deadzone THEN "PLUS"
    ELSE IF val <= -Deadzone THEN "MINUS"
    ELSE "NO_SIGN"

axisSign(val) ==
    IF val > Deadzone THEN "PLUS"
    ELSE IF val < -Deadzone THEN "MINUS"
    ELSE "NO_SIGN"

\* One pass of the switch in the SDL_PollEvent loop.
pollOne(r, event, joyId) ==
    IF event.type = "JOYBUTTONDOWN" /\ event.which = joyId
        THEN [gotInput |-> TRUE, key |-> KeySpec("BUTTON", ValueN(event.n))]
    ELSE IF event.type = "JOYAXISMOTION" /\ event.which = joyId
        THEN IF axisSign(event.value) # "NO_SIGN"
                THEN [gotInput |-> TRUE,
                      key |-> KeySpec("AXIS",
                                ValueSign(event.n, axisSign(event.value)))]
                ELSE r
    ELSE IF event.type = "JOYHATMOTION" /\ event.which = joyId
        THEN IF hatDirection(event.value) # "NO_DIR"
                THEN [gotInput |-> TRUE,
                      key |-> KeySpec("HAT",
                                ValueDir(event.n, hatDirection(event.value)))]
                ELSE [r EXCEPT !.gotInput = FALSE]
    ELSE r

RECURSIVE pollEvents(_, _, _)
pollEvents(r, queue, joyId) ==
    IF queue = <<>> THEN r
    ELSE pollEvents(pollOne(r, Head(queue), joyId), Tail(queue), joyId)

\* SDL_JoystickInstanceID: -1 for a NULL joystick.
joystickInstanceID(joy) == IF joy = "NULL" THEN -1 ELSE Joy0Id

timerEvent(d) ==
    IF ~d.inputReadingState.reading THEN d
    ELSE
        LET joyId == joystickInstanceID(d.inputReadingState.joy)
            r == pollEvents([gotInput |-> FALSE, key |-> NoKey],
                            d.sdlQueue, joyId)
            d1 == [d EXCEPT !.sdlQueue = <<>>]
        IN  IF r.gotInput THEN commitInput(d1, r.key) ELSE d1

qtToSdlKey(key) == key

\* QWidget::close: the dialog is hidden.
close(d) == [d EXCEPT !.phase = "closed"]

keyPressEvent(d, qtKey) ==
    IF d.inputReadingState.reading
        THEN commitInput(d, KeySpec("KEY", ValueN(qtToSdlKey(qtKey))))
    ELSE IF qtKey = Key_Escape THEN close(d)
    ELSE d

RECURSIVE setParamStrings(_, _)
setParamStrings(params, values) ==
    IF values = <<>> THEN params
    ELSE setParamStrings(
            [params EXCEPT ![Head(values).configName] =
                                keyspecsToString(Head(values).keys)],
            Tail(values))

\* Lines 408-420: ConfigSetParameter on the selected controller's handle;
\* the core refuses a handle that is no section and nothing is written.
setParameters(d, handle, values) ==
    IF IsSection(d, handle)
        THEN [d EXCEPT !.config[handle] =
                [mode |-> 0,
                 params |-> setParamStrings(d.config[handle].params, values)]]
        ELSE d

\* SHOW_W of error.h: the warning is surfaced and the dialog continues.
showWarning(d) == d

\* Lines 424-428: ConfigSaveSection writes the section of controllerIndex
\* out unless it fails for that section; a failure is shown as a warning
\* and changes nothing.  failing holds the sections whose save fails.
saveSection(d, controllerIndex, failing) ==
    IF controllerIndex \in failing THEN showWarning(d)
    ELSE [d EXCEPT !.savedSections = d.savedSections \cup {controllerIndex}]

saveController(d, controllerIndex, failing) ==
    IF ~currentController(d).changed
        THEN saveSection(d, controllerIndex, failing)
    ELSE IF currentController(d).configHandle = WildHandle THEN crash(d)
    ELSE saveSection(setParameters(d, currentController(d).configHandle,
                                   currentController(d).values),
                     controllerIndex, failing)

RECURSIVE saveControllers(_, _, _)
saveControllers(d, i, failing) ==
    IF i >= NumControllers \/ d.phase = "crashed" THEN d
    ELSE saveControllers(saveController(d, i, failing), i + 1, failing)

closeSaved(d) == IF d.phase = "crashed" THEN d ELSE close(d)

accept(d, failing) == closeSaved(saveControllers(d, 0, failing))

rejectSaving(d) == close(saveController(d, d.currentControllerIndex, {}))

\* QDialog::reject, connected to the button box's rejected signal.
reject(d) == close(d)

controllerSelected(d, index) ==
    setValues([d EXCEPT !.currentControllerIndex = index])

\* ------------------------------------------------------------------------
\* Initial state: the dialog as the constructor leaves it
\* ------------------------------------------------------------------------
\* Lines 73-77: configHandle is a local of the loop body which openSection
\* sets only when ConfigOpenSection succeeds, and the constructor stores it
\* either way.  After a failed open it holds whatever its slot held: the
\* handle of any section, a value the core refuses, or a value that
\* faults.
Uninitialised == ControllerIndexes \cup {JunkHandle, WildHandle}

\* The handles the loop can store when the sections of failed do not open.
StoredHandles(failed) ==
    {handles \in [ControllerIndexes -> Uninitialised] :
        \A i \in ControllerIndexes : i \notin failed => handles[i] = i}

AllOpened == [i \in ControllerIndexes |-> i]

Constructed(cfg, handles) == setValues(Blank(cfg, handles))

InstallDialog(d, rebind) ==
    /\ controllers' = d.controllers
    /\ currentControllerIndex' = d.currentControllerIndex
    /\ inputReadingState' = d.inputReadingState
    /\ inputTimer' = d.inputTimer
    /\ buttonText' = d.buttonText
    /\ config' = d.config
    /\ savedSections' = d.savedSections
    /\ sdlQueue' = d.sdlQueue
    /\ joyRefCount' = d.joyRefCount
    /\ activeTimers' = d.activeTimers
    /\ phase' = d.phase
    /\ nCommits' = d.nCommits
    /\ superseded' = rebind
    /\ UNCHANGED <<sdlWasInited, joyAvail>>

Install(d, rebind) ==
    /\ InstallDialog(d, rebind)
    /\ UNCHANGED <<merge, polled, codec>>

NoCodec == [list |-> <<>>, tail |-> <<>>, text |-> <<>>, out |-> <<>>,
            step |-> "idle"]

NoMerge == [keys |-> <<>>, key |-> NoKey, param |-> -1, out |-> <<>>,
            done |-> FALSE]

\* The config store when the dialog is constructed: the sections of the
\* four controllers hold different bindings.
InitialConfig ==
    [i \in ControllerIndexes |->
        ConfigProfiles[((i + 2) % Len(ConfigProfiles)) + 1]]

\* The variables hold the fields of d.
Holds(d) ==
    /\ controllers = d.controllers
    /\ currentControllerIndex = d.currentControllerIndex
    /\ inputReadingState = d.inputReadingState
    /\ inputTimer = d.inputTimer
    /\ buttonText = d.buttonText
    /\ config = d.config
    /\ savedSections = d.savedSections
    /\ sdlQueue = d.sdlQueue
    /\ joyRefCount = d.joyRefCount
    /\ activeTimers = d.activeTimers
    /\ phase = d.phase
    /\ nCommits = d.nCommits

\* The sets of sections whose ConfigOpenSection fails at construction.
OpenFailures == {{}, {0}, {1}}

\* The sets of sections whose ConfigSaveSection fails in accept.
SaveFailures == SUBSET ControllerIndexes

Init ==
    \E inited \in BOOLEAN, avail \in BOOLEAN :
        \* SDL_JoystickOpen fails alike without the subsystem or a device
        /\ avail => inited
        /\ \E failed \in OpenFailures : \E handles \in StoredHandles(failed) :
              \E d \in {Constructed(InitialConfig, handles)} :
                  /\ Holds(d)
                  \* a fault in setValues comes before SDL_InitSubSystem
                  /\ d.phase = "crashed" => ~inited
        /\ sdlWasInited = inited
        /\ joyAvail = avail
        /\ superseded = FALSE
        /\ merge = NoMerge
        /\ polled = <<>>
        /\ codec = NoCodec

\* ------------------------------------------------------------------------
\* Actions
\* ------------------------------------------------------------------------
\* What the joysticks can have reported when a queue holding len events is
\* updated: nothing without the joystick subsystem, and device 0 reports
\* only when it is attached.
Reportable(e) == sdlWasInited /\ (e.which = Joy0Id => joyAvail)

\* The event sequences an update can append.
ReportSeqs == UNION {[1..n -> EventAlphabet] : n \in 0..MaxQueue}

Reports(len) ==
    {r \in ReportSeqs : /\ Len(r) <= MaxQueue - len
                        /\ \A i \in 1..Len(r) : Reportable(r[i])}

Pressed ==
    /\ phase = "open"
    /\ nCommits < MaxCommits
    /\ \E bi \in ButtonIndexes : \E reported \in Reports(Len(sdlQueue)) :
          \E d \in {buttonPressed(State, bi, reported)} :
              Install(d, inputReadingState.reading)

TimerEvent ==
    /\ activeTimers > 0
    /\ \E d \in {timerEvent(State)} : Install(d, FALSE)

KeyPress ==
    /\ phase = "open"
    /\ \E k \in QtKeys : \E d \in {keyPressEvent(State, k)} : Install(d, FALSE)

ControllerSelected ==
    /\ phase = "open"
    /\ \E index \in 0..MaxSelect :
          /\ index # currentControllerIndex
          /\ \E d \in {controllerSelected(State, index)} : Install(d, FALSE)

Accept ==
    /\ phase = "open"
    /\ \E failing \in SaveFailures :
          \E d \in {accept(State, failing)} : Install(d, FALSE)

Reject ==
    /\ phase = "open"
    /\ Install(reject(State), FALSE)

\* ~InputDialog: SDL_QuitSubSystem undoes the constructor's init and with
\* it closes the joysticks left open; the members and the timers of the
\* dialog die with the object, the config store and the SDL queue remain.
destroy(d) ==
    [Blank(d.config, handlesOf(d)) EXCEPT
        !.phase = "destroyed",
        !.savedSections = d.savedSections,
        !.sdlQueue = d.sdlQueue,
        !.nCommits = d.nCommits,
        !.joyRefCount = IF sdlWasInited THEN 0 ELSE d.joyRefCount]

Destructor ==
    /\ phase = "closed"
    /\ Install(destroy(State), FALSE)

\* An input event of a joystick reaches the SDL queue.
QueueEvent ==
    \* the queue is followed for as long as the dialog can poll it
    /\ phase = "open" \/ (phase = "closed" /\ activeTimers > 0)
    /\ nCommits < MaxCommits
    /\ Len(sdlQueue) < MaxQueue
    /\ \E e \in EventAlphabet :
          /\ Reportable(e)
          /\ Install([State EXCEPT !.sdlQueue = Append(sdlQueue, e)], FALSE)

Next ==
    \/ Pressed
    \/ TimerEvent
    \/ KeyPress
    \/ ControllerSelected
    \/ Accept
    \/ Reject
    \/ Destructor
    \/ QueueEvent

Spec == Init /\ [][Next]_vars

TypeOK ==
    /\ currentControllerIndex \in ControllerIndexes
    /\ phase \in {"open", "closed", "destroyed", "crashed"}
    /\ superseded \in BOOLEAN
    /\ joyRefCount \in 0..1
    /\ activeTimers \in 0..1
    /\ Len(sdlQueue) <= MaxQueue

\* ------------------------------------------------------------------------
\* setKeySpecs on its own: the arguments are drawn, the action applies it
\* ------------------------------------------------------------------------
MaxSlots == 3

\* Values a slot of a stored KeySpec can hold: parsed ones, or the default
\* Value left by a resize.
SlotValues(type) ==
    IF type = "AXIS"
        THEN {DefaultValue, ValueSign(2, "PLUS"), ValueSign(2, "MINUS")}
    ELSE IF type = "HAT"
        THEN {DefaultValue, ValueDir(0, "UP"), ValueDir(0, "LEFT")}
    ELSE IF type = "BUTTON" THEN {DefaultValue, ValueN(3)}
    ELSE {DefaultValue, ValueN(65)}

StoredKeySpecs ==
    UNION {UNION {{[type |-> type, values |-> vals] :
                        vals \in [1..n -> SlotValues(type)]} :
                  n \in 1..MaxSlots} :
           type \in TypeTags}

\* A second alternative of a binding, as in "KEY 65 AXIS 1 +".
SecondKeySpecs == {[type |-> "AXIS", values |-> <<ValueSign(1, "PLUS")>>],
                   [type |-> "KEY", values |-> <<ValueN(65), ValueN(66)>>]}

StoredLists ==
    {<<>>} \cup {<<k>> : k \in StoredKeySpecs}
           \cup {<<k, k2>> : k \in StoredKeySpecs, k2 \in SecondKeySpecs}

\* The KeySpecs timerEvent and keyPressEvent construct.
CapturedKeys ==
    {KeySpec("BUTTON", ValueN(n)) : n \in {3, 5}}
    \cup {KeySpec("AXIS", ValueSign(n, sg)) :
            n \in {2, 7}, sg \in {"PLUS", "MINUS"}}
    \cup {KeySpec("HAT", ValueDir(0, dr)) : dr \in Directions}
    \cup {KeySpec("KEY", ValueN(qtToSdlKey(k))) : k \in QtKeys}

\* The parameters of the button table.
ButtonParameters == {AllButtons[i].parameter : i \in 1..Len(AllButtons)}

InitMerge ==
    /\ \E d \in {Constructed(InitialConfig, AllOpened)} : Holds(d)
    /\ sdlWasInited = TRUE
    /\ joyAvail = TRUE
    /\ superseded = FALSE
    /\ polled = <<>>
    /\ codec = NoCodec
    /\ \E keys \in StoredLists, key \in CapturedKeys,
          param \in ButtonParameters :
          merge = [keys |-> keys, key |-> key, param |-> param,
                   out |-> <<>>, done |-> FALSE]

ApplyMerge ==
    /\ ~merge.done
    /\ merge' = [merge EXCEPT
                    !.out = setKeySpecs(merge.keys, merge.key, merge.param),
                    !.done = TRUE]
    /\ UNCHANGED <<controllers, currentControllerIndex, inputReadingState,
                   inputTimer, sdlWasInited, buttonText, config,
                   savedSections, sdlQueue, joyRefCount, activeTimers,
                   joyAvail, phase, nCommits, superseded, polled, codec>>

NextMerge == ApplyMerge

SpecMerge == InitMerge /\ [][NextMerge]_vars

\* ------------------------------------------------------------------------
\* One timer event of a listening session over a drawn batch of SDL events
\* ------------------------------------------------------------------------
MaxBatch == 2

SDL_HAT_RIGHTUP == SDL_HAT_RIGHT + SDL_HAT_UP

PollAlphabet ==
    {Ev("JOYBUTTONDOWN", Joy0Id, 3, 1),
     Ev("JOYBUTTONDOWN", OtherJoyId, 5, 1)}
    \cup {Ev("JOYAXISMOTION", Joy0Id, 2, v) :
            v \in {Deadzone, Deadzone + 1, -Deadzone, -Deadzone - 1}}
    \cup {Ev("JOYAXISMOTION", OtherJoyId, 7, Deadzone + 1)}
    \cup {Ev("JOYHATMOTION", Joy0Id, 0, v) :
            v \in {SDL_HAT_CENTERED, SDL_HAT_UP, SDL_HAT_RIGHT, SDL_HAT_DOWN,
                   SDL_HAT_LEFT, SDL_HAT_RIGHTUP}}

Batches == UNION {[1..n -> PollAlphabet] : n \in 1..MaxBatch}

\* A session is listening on a control and the batch has reached the queue.
InitPoll ==
    /\ sdlWasInited = TRUE
    /\ superseded = FALSE
    /\ merge = NoMerge
    /\ polled = <<>>
    /\ codec = NoCodec
    /\ \E c \in {Constructed(InitialConfig, AllOpened)}, avail \in BOOLEAN :
        /\ joyAvail = avail
        /\ \E bi \in ButtonIndexes :
            \E p \in {buttonPressed(c, bi, <<>>)} :
                \E batch \in Batches :
                    Holds([p EXCEPT !.sdlQueue = batch])

PollTick ==
    /\ activeTimers > 0
    /\ InstallDialog(timerEvent(State), FALSE)
    /\ polled' = sdlQueue
    /\ UNCHANGED <<merge, codec>>

NextPoll == PollTick

SpecPoll == InitPoll /\ [][NextPoll]_vars

\* ------------------------------------------------------------------------
\* The codec on its own: a KeySpec list is serialized as saveController
\* does, a remainder follows it in the parameter, and setValues parses it
\* ------------------------------------------------------------------------
MaxKeySpecs == 2

\* KeySpecs the dialog holds: parsed ones and merged ones, with the default
\* Value in the slots of BUTTON and KEY a merge left unset.
CodecKeySpecs ==
    {[type |-> "BUTTON", values |-> <<ValueN(3)>>],
     [type |-> "BUTTON", values |-> <<ValueN(5), DefaultValue>>],
     [type |-> "KEY", values |-> <<ValueN(65)>>],
     [type |-> "KEY", values |-> <<DefaultValue, ValueN(Key_Escape)>>],
     [type |-> "AXIS", values |-> <<ValueSign(1, "PLUS")>>],
     [type |-> "AXIS", values |-> <<ValueSign(1, "MINUS")>>],
     [type |-> "AXIS",
      values |-> <<ValueSign(2, "PLUS"), ValueSign(2, "MINUS")>>],
     [type |-> "HAT", values |-> <<ValueDir(0, "UP")>>],
     [type |-> "HAT",
      values |-> <<ValueDir(0, "LEFT"), ValueDir(0, "RIGHT"),
                   ValueDir(0, "DOWN")>>]}

CodecLists == UNION {[1..n -> CodecKeySpecs] : n \in 0..MaxKeySpecs}

\* What follows the serialized list in the parameter: nothing, or a
\* remainder no KeySpec starts.
MalformedTails ==
    {<<" ", "GARBAGE">>,
     <<" ", "GARBAGE", " ", "KEY", " ", "65">>,
     <<" ", "AXIS", " ", "1">>,
     <<" ", "HAT">>,
     <<" ", "BUTTON", "3">>}

CodecTails == {<<>>, <<" ">>} \cup MalformedTails

InitCodec ==
    /\ sdlWasInited = TRUE
    /\ joyAvail = TRUE
    /\ \E d \in {Constructed(InitialConfig, AllOpened)} : Holds(d)
    /\ superseded = FALSE
    /\ merge = NoMerge
    /\ polled = <<>>
    /\ \E list \in CodecLists, tail \in CodecTails :
          codec = [list |-> list, tail |-> tail, text |-> <<>>,
                   out |-> <<>>, step |-> "drawn"]

Serialize ==
    /\ codec.step = "drawn"
    /\ codec' = [codec EXCEPT
                    !.text = keyspecsToString(codec.list) \o codec.tail,
                    !.step = "serialized"]
    /\ UNCHANGED <<controllers, currentControllerIndex, inputReadingState,
                   inputTimer, sdlWasInited, buttonText, config,
                   savedSections, sdlQueue, joyRefCount, activeTimers,
                   joyAvail, phase, nCommits, superseded, merge, polled>>

Parse ==
    /\ codec.step = "serialized"
    /\ codec' = [codec EXCEPT !.out = parseKeyConfig(codec.text),
                              !.step = "parsed"]
    /\ UNCHANGED <<controllers, currentControllerIndex, inputReadingState,
                   inputTimer, sdlWasInited, buttonText, config,
                   savedSections, sdlQueue, joyRefCount, activeTimers,
                   joyAvail, phase, nCommits, superseded, merge, polled>>

NextCodec == Serialize \/ Parse

SpecCodec == InitCodec /\ [][NextCodec]_vars

\* ------------------------------------------------------------------------
\* The display on its own: the config store holds drawn bindings and the
\* controllers are selected in turn
\* ------------------------------------------------------------------------
\* Bindings of "X Axis" as the config store can hold them.
ShownStrings ==
    {<<>>,
     <<"AXIS", " ", "0", " ", "-", " ", "0", " ", "+">>,
     <<"KEY", " ", "65", " ", "AXIS", " ", "1", " ", "+">>,
     <<"BUTTON", " ", "5", " ", "-1">>,
     <<"BUTTON", " ", "-1", " ", "5">>,
     <<"AXIS", " ", "1", " ", "+", " ", "1", " ", "-", " ",
       "AXIS", " ", "2", " ", "+", " ", "2", " ", "-">>,
     <<"AXIS", " ", "1", " ", "+", " ", "1", " ", "-", " ", "KEY", " ", "65">>,
     <<"HAT", " ", "0", " ", "UP", " ", "0", " ", "DOWN", " ",
       "0", " ", "LEFT">>,
     <<"KEY", " ", "65", " ", "66", " ", "BUTTON", " ", "-1", " ", "3">>}

ShownConfig(f) ==
    [i \in ControllerIndexes |->
        [mode |-> 2,
         params |-> [nm \in ModelledNames |->
            IF nm = "X Axis" /\ i <= MaxSelect THEN f[i]
            ELSE IF nm = "A Button" THEN <<"BUTTON", " ", "0">>
            ELSE <<>>]]]

InitShow ==
    /\ sdlWasInited = TRUE
    /\ joyAvail = TRUE
    /\ superseded = FALSE
    /\ merge = NoMerge
    /\ polled = <<>>
    /\ codec = NoCodec
    /\ \E f \in [0..MaxSelect -> ShownStrings] :
          \E d \in {Constructed(ShownConfig(f), AllOpened)} : Holds(d)

NextShow == ControllerSelected

SpecShow == InitShow /\ [][NextShow]_vars

\* ------------------------------------------------------------------------
\* Properties
\* ------------------------------------------------------------------------
reading == inputReadingState.reading

\* A step that commits a capture.
Commit == nCommits' = nCommits + 1

\* C1: accept leaves every controller whose changed flag is set with each
\* of its bindings written, serialized, to its own config section,
\* whichever controller is selected (stated for a dialog whose SDL init
\* succeeded and whose four sections opened).
C1_AcceptWritesEveryChanged ==
    [][(sdlWasInited /\ handlesOf(State) = AllOpened /\ Accept) =>
        \A i \in ControllerIndexes :
            controllers'[i].changed =>
                \A j \in 1..Len(controllers'[i].values) :
                    config'[i].params[controllers'[i].values[j].configName]
                        = keyspecsToString(controllers'[i].values[j].keys)]_vars

\* C2: on every commit the controller that owns the mutated Value is the
\* one whose changed flag is set (stated for a dialog whose SDL init
\* succeeded).
C2_OwnerMarkedChanged ==
    [][(sdlWasInited /\ Commit) =>
            controllers'[inputReadingState.value.ctrl].changed]_vars

\* C3: only accept writes the config store: a step that changes the
\* parameters or the saved sections is no step of a rebind, a timer event,
\* a key press (escape included), a controller switch, a reject, an
\* arriving event or the destructor.
C3_OnlyAcceptWrites ==
    [][(config' # config \/ savedSections' # savedSections) =>
            ~(Pressed \/ TimerEvent \/ KeyPress \/ ControllerSelected
                \/ Reject \/ QueueEvent \/ Destructor)]_vars

\* C3 witness: a binding was committed and the dialog closed without
\* accept, nothing written.
C3_Witness ==
    /\ nCommits > 0
    /\ phase = "closed"
    /\ savedSections = {}
    /\ \E i \in ControllerIndexes : controllers[i].changed

C4_AtMostOne == joyRefCount <= 1 /\ activeTimers <= 1

C4_Supersede ==
    superseded' =>
        /\ reading'
        /\ joyRefCount' = (IF inputReadingState'.joy = "NULL" THEN 0 ELSE 1)
        /\ activeTimers' = 1
        /\ controllers' = controllers
        /\ nCommits' = nCommits

\* C4: at most one capture session at any time: at most one handle is open
\* and one timer running, and a rebind while LISTENING leaves only the new
\* session's handle and timer, with nothing committed.
C4_OneSession == []C4_AtMostOne /\ [][C4_Supersede]_vars

\* C4 witness: a rebind was taken while a session was listening, and the
\* new session holds the one handle and timer.
C4_Witness ==
    /\ superseded
    /\ reading
    /\ joyRefCount = 1
    /\ activeTimers = 1

\* A press during which the joysticks report nothing new.
PressedQuiet ==
    /\ phase = "open"
    /\ nCommits < MaxCommits
    /\ \E bi \in ButtonIndexes :
          Install(buttonPressed(State, bi, <<>>), inputReadingState.reading)

\* C5: starting a capture session discards every input event that was
\* queued before the session began: when nothing new is reported while
\* the session starts, the queue is left empty.
C5_StartDiscardsQueued ==
    [][PressedQuiet => sdlQueue' = <<>>]_vars

C6_IdleReleased ==
    ~reading => joyRefCount = 0 /\ activeTimers = 0 /\ inputTimer = 0

C6_CommitEnds ==
    Commit =>
        /\ reading
        /\ ~reading'
        /\ joyRefCount' = 0
        /\ activeTimers' = 0

C6_IdleFrame ==
    (~reading /\ (TimerEvent \/ KeyPress)) =>
        /\ ~reading'
        /\ controllers' = controllers
        /\ nCommits' = nCommits

\* C6: a session commits at most once: the commit leaves the session IDLE
\* (not reading, handle released, timer stopped), and while IDLE no timer
\* event or key press changes a binding or a changed flag.
C6_OneCommitPerSession ==
    []C6_IdleReleased /\ [][C6_CommitEnds /\ C6_IdleFrame]_vars

\* C6 witness: a session has committed and left the dialog IDLE and open
\* to further timer events and key presses.
C6_Witness ==
    /\ nCommits = 1
    /\ ~reading
    /\ joyRefCount = 0
    /\ activeTimers = 0
    /\ phase = "open"

\* C7: once the dialog is closed no session is listening: the handle is
\* released and the timer stopped (stated for a dialog whose SDL init
\* succeeded and whose joystick opens).
C7_CloseCancelsSession ==
    (sdlWasInited /\ joyAvail /\ phase = "closed") =>
        ~reading /\ joyRefCount = 0 /\ activeTimers = 0

\* C8: when SDL could not be initialised no rebind enters LISTENING, opens
\* a handle or starts the timer, and no binding is changed.
C8_NoCaptureWithoutSdl ==
    ~sdlWasInited =>
        /\ ~reading
        /\ joyRefCount = 0
        /\ activeTimers = 0
        /\ nCommits = 0

FlippedSign(sign) == IF sign = "PLUS" THEN "MINUS" ELSE "PLUS"

FlippedDirection(dir) ==
    IF dir = "UP" THEN "DOWN"
    ELSE IF dir = "DOWN" THEN "UP"
    ELSE IF dir = "LEFT" THEN "RIGHT"
    ELSE "LEFT"

Max(a, b) == IF a >= b THEN a ELSE b

OldSlots(keys) == IF keys = <<>> THEN 0 ELSE Len(keys[1].values)

\* C9: with parameter >= 0 and an empty list or a first KeySpec of another
\* type, the result is one KeySpec of newKey's type with
\* max(2, parameter+1, old slot count) slots, slot parameter holding
\* newKey's value and, for AXIS and HAT, every other slot holding that value
\* with the same number and the sign or direction flipped.
C9_FreshKeySpec ==
    (/\ merge.done
     /\ merge.param >= 0
     /\ (merge.keys = <<>> \/ merge.keys[1].type # merge.key.type)) =>
        LET v == merge.key.values[1]
            n == Max(2, Max(merge.param + 1, OldSlots(merge.keys)))
        IN  /\ Len(merge.out) = 1
            /\ merge.out[1].type = merge.key.type
            /\ Len(merge.out[1].values) = n
            /\ merge.out[1].values[merge.param + 1] = v
            /\ merge.key.type \in {"AXIS", "HAT"} =>
                \A i \in 1..n :
                    i # merge.param + 1 =>
                        merge.out[1].values[i] =
                            IF merge.key.type = "AXIS"
                                THEN ValueSign(v.number, FlippedSign(v.sign))
                                ELSE ValueDir(v.number,
                                              FlippedDirection(v.direction))

\* C9 witness: an AXIS capture merged over a three-slot KeySpec of another
\* type keeps three slots.
C9_Witness ==
    /\ merge.done
    /\ merge.param >= 0
    /\ merge.key.type = "AXIS"
    /\ merge.keys # <<>>
    /\ merge.keys[1].type # "AXIS"
    /\ Len(merge.keys[1].values) = 3
    /\ Len(merge.out[1].values) = 3

\* C10: with parameter >= 0 and a first KeySpec of newKey's type, that
\* KeySpec is kept: it grows only when parameter is beyond its length, slot
\* parameter takes newKey's value and its other slots are unchanged.
C10_PatchKeepsOtherSlots ==
    (/\ merge.done
     /\ merge.param >= 0
     /\ merge.keys # <<>>
     /\ merge.keys[1].type = merge.key.type) =>
        LET old == merge.keys[1].values
        IN  /\ Len(merge.out) >= 1
            /\ merge.out[1].type = merge.keys[1].type
            /\ Len(merge.out[1].values) = Max(Len(old), merge.param + 1)
            /\ merge.out[1].values[merge.param + 1] = merge.key.values[1]
            /\ \A i \in 1..Len(old) :
                    i # merge.param + 1 => merge.out[1].values[i] = old[i]

\* C10 witness: slot 0 of a two-slot KeySpec of the same type was
\* overwritten with another value and slot 1 kept a bound value.
C10_Witness ==
    /\ merge.done
    /\ merge.param = 0
    /\ merge.keys # <<>>
    /\ merge.keys[1].type = merge.key.type
    /\ Len(merge.keys[1].values) = 2
    /\ merge.keys[1].values[2].number >= 0
    /\ merge.out[1].values[1] # merge.keys[1].values[1]
    /\ merge.out[1].values[2] = merge.keys[1].values[2]


\* C11: with parameter < 0 the result is the single-element list holding
\* newKey, whatever the list held before.
C11_WholeListReplaced ==
    (merge.done /\ merge.param < 0) => merge.out = <<merge.key>>

\* C11 witness: a capture replaced a list of two KeySpecs whose first was
\* of another type.
C11_Witness ==
    /\ merge.done
    /\ merge.param < 0
    /\ Len(merge.keys) = 2
    /\ merge.keys[1].type # merge.key.type
    /\ Len(merge.out) = 1

\* The buttons that share the two-slot control "X Axis" with the button of
\* the given parameter.
CompanionButtons(param) ==
    {AllButtons[i] : i \in {j \in 1..Len(AllButtons) :
        /\ AllButtons[j].configName = "X Axis"
        /\ AllButtons[j].parameter # param}}

\* The companion buttons of a merged binding are bound and shown as bound.
CompanionsBound(out, param) ==
    \A b \in CompanionButtons(param) :
        /\ out # <<>>
        /\ Len(out[1].values) > b.parameter
        /\ out[1].values[b.parameter + 1].number >= 0
        /\ showKeys(projectKeys(
                <<[configName |-> b.configName, keys |-> out]>>, b))
              # UnboundText

\* C12 as stated: after a commit with parameter >= 0, for every captured
\* type and every prior binding, the companion slot holds a number >= 0 and
\* the companion button does not show the unbound text.
C12_CompanionNeverUnbound ==
    (merge.done /\ merge.param >= 0) => CompanionsBound(merge.out, merge.param)

\* C12 amended: after a commit with parameter >= 0 of an AXIS or HAT
\* capture over an empty list or a first KeySpec of another type, the
\* companion slot holds a number >= 0 and the companion button does not
\* show the unbound text.
C12_InvertedCompanionBound ==
    (/\ merge.done
     /\ merge.param >= 0
     /\ merge.key.type \in {"AXIS", "HAT"}
     /\ (merge.keys = <<>> \/ merge.keys[1].type # merge.key.type)) =>
        CompanionsBound(merge.out, merge.param)

\* C12 witness: a HAT capture into slot 0 over a BUTTON binding whose slot 1
\* was unbound.
C12_Witness ==
    /\ merge.done
    /\ merge.param = 0
    /\ merge.key.type = "HAT"
    /\ merge.keys # <<>>
    /\ merge.keys[1].type = "BUTTON"
    /\ Len(merge.keys[1].values) = 2
    /\ merge.keys[1].values[2].number < 0
    /\ merge.out[1].values[2].number >= 0


\* The event comes from the joystick the session opened.
FromOpened(e) == inputReadingState.joy # "NULL" /\ e.which = Joy0Id

\* The binding the session writes to, and the parameter of its button.
SessionKeys ==
    controllers[inputReadingState.value.ctrl]
        .values[inputReadingState.value.idx].keys

SessionParam == buttons[inputReadingState.button].parameter

\* The step commits key into the session's binding and ends the session.
CommittedAs(key) ==
    /\ Commit
    /\ ~reading'
    /\ SessionKeys' = setKeySpecs(SessionKeys, key, SessionParam)

\* The step commits nothing and leaves the session listening.
NoCommitStep ==
    /\ ~Commit
    /\ reading'
    /\ controllers' = controllers

IsAxisOfOpened(e) == e.type = "JOYAXISMOTION" /\ FromOpened(e)

BeyondDeadzone(e) == e.value > 16384 \/ e.value < -16384

\* The last event of the batch that is beyond the deadzone.
LastBeyond(q) ==
    q[CHOOSE i \in 1..Len(q) :
        /\ BeyondDeadzone(q[i])
        /\ \A j \in (i + 1)..Len(q) : ~BeyondDeadzone(q[j])]

\* C13: a timer event whose batch holds axis motion of the opened device
\* only commits exactly when a value is strictly beyond 16384 in
\* magnitude: 16384 and -16384 commit nothing, a value above 16384 commits
\* the axis with sign PLUS and a value below -16384 with sign MINUS.
C13_AxisDeadzone ==
    [][(/\ reading
        /\ sdlQueue # <<>>
        /\ \A i \in 1..Len(sdlQueue) : IsAxisOfOpened(sdlQueue[i])) =>
            IF \E i \in 1..Len(sdlQueue) : BeyondDeadzone(sdlQueue[i])
                THEN LET e == LastBeyond(sdlQueue)
                     IN  CommittedAs(KeySpec("AXIS",
                            ValueSign(e.n, IF e.value > 16384 THEN "PLUS"
                                           ELSE "MINUS")))
                ELSE NoCommitStep]_vars

\* C13 witness: the timer event polled axis values of exactly 16384 and
\* -16384 from the opened device and the session is still listening.
C13_Witness ==
    /\ polled = <<Ev("JOYAXISMOTION", Joy0Id, 2, 16384),
                  Ev("JOYAXISMOTION", Joy0Id, 2, -16384)>>
    /\ inputReadingState.joy = "JOY0"
    /\ reading
    /\ nCommits = 0

IsHat(e) == e.type = "JOYHATMOTION"

Cardinals == {1, 2, 4, 8}

CardinalName(v) ==
    IF v = 1 THEN "UP" ELSE IF v = 2 THEN "RIGHT"
    ELSE IF v = 4 THEN "DOWN" ELSE "LEFT"

\* The Value a commit wrote to the slot of the session's button.
CommittedValue(keys, param) ==
    keys[1].values[IF param < 0 THEN 1 ELSE param + 1]

C14_OnlyNonCardinal ==
    (/\ reading
     /\ sdlQueue # <<>>
     /\ \A i \in 1..Len(sdlQueue) :
            IsHat(sdlQueue[i]) /\ sdlQueue[i].value \notin Cardinals) =>
        NoCommitStep

C14_HatFromCardinal ==
    (reading /\ Commit /\ SessionKeys'[1].type = "HAT") =>
        \E i \in 1..Len(sdlQueue) :
            /\ IsHat(sdlQueue[i])
            /\ FromOpened(sdlQueue[i])
            /\ sdlQueue[i].value \in Cardinals
            /\ CommittedValue(SessionKeys', SessionParam) =
                    ValueDir(sdlQueue[i].n, CardinalName(sdlQueue[i].value))

\* C14: a timer event whose batch holds only hat events in a diagonal or
\* centered state commits nothing and leaves the session listening, and
\* every HAT binding a timer event commits carries the direction of a
\* cardinal hat event of the batch.
C14_NonCardinalHatNeverCommits ==
    [][C14_OnlyNonCardinal /\ C14_HatFromCardinal]_vars

\* C14 witness: the timer event polled a diagonal and a centered hat event
\* of the opened device and the session is still listening.
C14_Witness ==
    /\ polled = <<Ev("JOYHATMOTION", Joy0Id, 0, 3),
                  Ev("JOYHATMOTION", Joy0Id, 0, 0)>>
    /\ inputReadingState.joy = "JOY0"
    /\ reading
    /\ nCommits = 0


\* A qualifying event: a button press, an axis beyond the deadzone or a
\* cardinal hat state, of the opened device.
Qualifies(e) ==
    /\ FromOpened(e)
    /\ \/ e.type = "JOYBUTTONDOWN"
       \/ e.type = "JOYAXISMOTION" /\ BeyondDeadzone(e)
       \/ IsHat(e) /\ e.value \in Cardinals

\* C17: a timer event of a listening session whose batch holds at least one
\* qualifying event commits and leaves the session IDLE, for every order of
\* the events in the batch.
C17_QualifyingBatchCommits ==
    [][(reading /\ \E i \in 1..Len(sdlQueue) : Qualifies(sdlQueue[i])) =>
            (Commit /\ ~reading')]_vars


\* C15: parseKeyConfig returns the KeySpecs that precede the first lexeme
\* no KeySpec starts, or the end of the string, in the order they stand in
\* the string, and nothing of what follows.
C15_ParseStopsAtFirstFailure ==
    codec.step = "parsed" => codec.out = codec.list

\* C15 witness: two KeySpecs were parsed from a string that goes on with
\* a malformed word and a well-formed KeySpec after it.
C15_Witness ==
    /\ codec.step = "parsed"
    /\ codec.tail = <<" ", "GARBAGE", " ", "KEY", " ", "65">>
    /\ Len(codec.list) = 2
    /\ Len(codec.out) = 2

\* The renderings of the KeySpecs with one space between neighbours.
RECURSIVE JoinedBySpace(_)
JoinedBySpace(list) ==
    IF list = <<>> THEN <<>>
    ELSE IF Len(list) = 1 THEN toString(list[1])
    ELSE toString(list[1]) \o <<" ">> \o JoinedBySpace(Tail(list))

\* C16: the serialized list is the renderings joined by single spaces, and
\* parsing it gives as many KeySpecs in the same order, each of the same
\* type with the same number, sign and direction in every slot.
C16_RoundTrip ==
    (codec.step = "parsed" /\ codec.tail = <<>>) =>
        /\ codec.text = JoinedBySpace(codec.list)
        /\ Len(codec.out) = Len(codec.list)
        /\ \A i \in 1..Len(codec.list) :
            /\ codec.out[i].type = codec.list[i].type
            /\ Len(codec.out[i].values) = Len(codec.list[i].values)
            /\ \A j \in 1..Len(codec.list[i].values) :
                /\ codec.out[i].values[j].number
                        = codec.list[i].values[j].number
                /\ codec.out[i].values[j].sign
                        = codec.list[i].values[j].sign
                /\ codec.out[i].values[j].direction
                        = codec.list[i].values[j].direction

\* C16 witness: "AXIS 1 + AXIS 1 -", two KeySpecs of one slot each, was
\* parsed back.
C16_Witness ==
    /\ codec.step = "parsed"
    /\ codec.text = <<"AXIS", " ", "1", " ", "+", " ",
                      "AXIS", " ", "1", " ", "-">>
    /\ Len(codec.out) = 2
    /\ codec.out[2].values = <<ValueSign(1, "MINUS")>>


\* The KeySpecs the selected controller holds for the control of a button.
ShownBinding(b) ==
    LET vals == controllers[currentControllerIndex].values
    IN  vals[CHOOSE j \in 1..Len(vals) :
                vals[j].configName = b.configName].keys

C18_Projection ==
    phase = "open" =>
        \A bi \in ButtonIndexes :
            LET p == buttons[bi].parameter
                keys == ShownBinding(buttons[bi])
            IN  p >= 0 =>
                    IF \E i \in 1..Len(keys) :
                            \/ Len(keys[i].values) <= p
                            \/ keys[i].values[p + 1].number < 0
                        THEN buttonText[bi] = <<"Select...">>
                        ELSE keys # <<>> =>
                                buttonText[bi] = keyspecsToString(
                                    [i \in 1..Len(keys) |->
                                        [type |-> keys[i].type,
                                         values |->
                                            <<keys[i].values[p + 1]>>]])

C18_BindingsKept ==
    \A i \in ControllerIndexes :
        controllers[i].values # <<>> => controllers'[i] = controllers[i]

\* C18: a button with parameter p >= 0 shows the unbound text when a
\* KeySpec of its control's binding has no slot p or a negative number in
\* slot p, and otherwise every KeySpec reduced to its slot p; refreshing the
\* display leaves the loaded bindings as they were.
C18_DisplayProjection ==
    []C18_Projection /\ [][C18_BindingsKept]_vars

\* C18 witness: the selected controller's "X Axis" is "AXIS 1 + 1 - KEY 65":
\* the left button shows both KeySpecs reduced to slot 0, the right button
\* the unbound text because the KEY KeySpec has no slot 1.
C18_Witness ==
    /\ currentControllerIndex = 1
    /\ Len(ShownBinding(buttons[1])) = 2
    /\ ShownBinding(buttons[1])[2] = [type |-> "KEY", values |-> <<ValueN(65)>>]
    /\ buttonText[1] = <<"AXIS", " ", "1", " ", "+", " ", "KEY", " ", "65">>
    /\ buttonText[2] = <<"Select...">>


\* C19: the poll timer runs only while the session is reading, so no timer
\* event reaches the handler's "not reading" branch.
C19_TimerOnlyWhileReading ==
    (activeTimers > 0 \/ inputTimer # 0) => reading

\* C19 witness: the dialog was closed while a session started on another
\* controller was listening; the timer runs and the session is reading.
C19_Witness ==
    /\ activeTimers = 1
    /\ reading
    /\ phase = "closed"
    /\ inputReadingState.value.ctrl # currentControllerIndex

\* C20: the merged list has exactly one KeySpec in each branch of
\* setKeySpecs, and with parameter >= 0 that KeySpec has newKey's type and
\* more than parameter slots.
C20_SingleKeySpec ==
    merge.done =>
        /\ Len(merge.out) = 1
        /\ merge.param >= 0 =>
            /\ merge.out[1].type = merge.key.type
            /\ Len(merge.out[1].values) > merge.param

\* C20 witness: a capture patched slot 1 of the first of two KeySpecs and
\* the second one was dropped.
C20_Witness ==
    /\ merge.done
    /\ merge.param = 1
    /\ Len(merge.keys) = 2
    /\ merge.keys[1].type = merge.key.type
    /\ Len(merge.out) = 1

====
